---- MODULE Spec2Model ----
(***************************************************************************)
(* State-machine model of src/wlr_screencopy.rs: WlrScreencopyState (the   *)
(* manager and its registry `frames`), WlrScreencopyFrame (the consumer    *)
(* handle) and the Dispatch<ZwlrScreencopyFrameV1> event handler.          *)
(*                                                                         *)
(* Every Arc<Mutex<WlrScreencopyFrameInner>> is one heap cell: inner[c] is *)
(* the data behind the mutex and mutex[c] the lock itself (owner and the   *)
(* poison flag std::sync::Mutex sets when a guard is dropped by a panic).  *)
(* The registry and the handles hold cell addresses (Arc clones).          *)
(* The event handler runs on the dispatching thread, the handle's methods  *)
(* on consumer threads. A thread runs on until it returns, panics, or has  *)
(* to wait for a lock another thread holds; a consumer's lock is visible   *)
(* to the other threads between its lock() and its return. A panic is not  *)
(* caught: it unwinds its thread, which makes no further call, or ends the *)
(* process.                                                                *)
(*                                                                         *)
(* Spec runs every call from its start to its end (no two calls overlap);  *)
(* ThreadSpec interleaves the threads at the locks, FairThreadSpec under   *)
(* fair scheduling. DropSpec adds the discard of handles to Spec, and      *)
(* CatchSpec a dispatching thread whose caller catches the handler's       *)
(* unwind and dispatches on.                                               *)
(***************************************************************************)
EXTENDS Integers, Sequences, FiniteSets, TLC

\* ---------------------------------------------------------------- bounds
MaxFrames == 2
MaxOffers == 2
MaxEvents == 3
\* events dispatched in the thread-level specification
MaxThreadEvents == 1

\* ------------------------------------------------------------ input sets
\* ids of ZwlrScreencopyFrameV1 objects that capture_output did not create
ForeignProxies == {0}
Outputs == {"wl_output@A", "wl_output@B"}
\* the wl_buffer objects of the consumer; each is given to copy at most once
WlBuffers == {"wl_buffer@1"}
\* raw wl_shm format codes on the wire: 0 and 1 are defined, 2 is not
ShmFormatCodes == {0, 2}
\* raw fourcc of a dmabuf offer (passed through as u32)
DmabufFormats == {875713112}
Widths == {1920}
Heights == {1080}
Strides == {7680}
\* raw flags bitfield on the wire: bit 0 is y_invert, bit 1 is undefined
FlagsCodes == {1, 2}
Timestamps == {<<0, 1, 0>>, <<1, 0, 2>>}

\* the threads that use the handles
Consumers == {"c1", "c2"}

VARIABLES
    inner,      \* heap: Seq of WlrScreencopyFrameInner, one per Arc allocation
    mutex,      \* heap: Seq of [owner, poisoned], the Mutex around inner[c]
    frames,     \* WlrScreencopyState.frames: Seq of cell addresses
    handles,    \* the WlrScreencopyFrame values returned so far: cell addresses
    disp,       \* the dispatching thread: position in Dispatch::event
    cons,       \* consumer threads: position in copy / buffer_types / status
    dropped,    \* the handles the consumer has discarded (indices of handles)
    copies,     \* zwlr_screencopy_frame_v1.copy requests sent, in order
    offered,    \* history: per cell, the offer events the handler matched
    closed,     \* history: per cell, a BufferDone event was matched
    nevents,    \* number of events dispatched so far
    aborted     \* the process was ended by a panic (panic = "abort")

vars == <<inner, mutex, frames, handles, dropped, disp, cons, copies,
          offered, closed, nevents, aborted>>

\* ------------------------------------------------------------ data types
None == <<"None">>
Some(x) == <<"Some", x>>

NotReady == <<"NotReady">>
Failed == <<"Failed">>
Ready(t) == <<"Ready", t>>

WlShm(format, width, height, stride) ==
    [kind |-> "WlShm", format |-> format, width |-> width,
     height |-> height, stride |-> stride]

LinuxDmabuf(format, width, height) ==
    [kind |-> "LinuxDmabuf", format |-> format, width |-> width,
     height |-> height]

WlrScreencopyFrameInner(frame) ==
    [frame |-> frame, buffers |-> <<>>, buffers_done |-> FALSE,
     flags |-> None, status |-> NotReady]

\* ------------------------------------------------------- wire conversions
Ok(x) == <<"Ok", x>>
Err(x) == <<"Err", x>>
IsOk(r) == r[1] = "Ok"
Unwrap(r) == r[2]

\* WEnum<wl_shm::Format>::into_result: the defined codes become the enum
\* value, any other code is WEnum::Unknown and gives Err
ShmFormatIntoResult(code) ==
    CASE code = 0 -> Ok("Argb8888")
      [] code = 1 -> Ok("Xrgb8888")
      [] OTHER -> Err(code)

\* WEnum<Flags>::into_result: Flags::from_bits, Err when an undefined bit is set
FlagsIntoResult(code) ==
    CASE code = 0 -> Ok({})
      [] code = 1 -> Ok({"YInvert"})
      [] OTHER -> Err(code)

\* ------------------------------------------------------------------ events
Events ==
    [type : {"Buffer"}, format : ShmFormatCodes, width : Widths,
     height : Heights, stride : Strides]
    \cup [type : {"LinuxDmabuf"}, format : DmabufFormats, width : Widths,
          height : Heights]
    \cup [type : {"BufferDone"}]
    \cup [type : {"Flags"}, flags : FlagsCodes]
    \cup [type : {"Damage"}]
    \cup {[type |-> "Ready", tv_sec_hi |-> t[1], tv_sec_lo |-> t[2],
            tv_nsec |-> t[3]] : t \in Timestamps}
    \cup [type : {"Failed"}]

IsOffer(ev) == ev.type \in {"Buffer", "LinuxDmabuf"}

NoEvent == [type |-> "none"]

\* ------------------------------------------------------------------- locks
Free == <<"free">>
ConsThread(t) == <<"cons", t>>

NewMutex == [owner |-> Free, poisoned |-> FALSE]
\* mutant: the guard is forgotten (mem::forget), not dropped
Leaked(m) == m

\* a guard dropped on normal return
Unlocked(m) == [m EXCEPT !.owner = Free]
\* a guard dropped while its thread is panicking
Poisoned(m) == [m EXCEPT !.owner = Free, !.poisoned = TRUE]

\* a thread is "idle" between calls and "panicked" once a panic has unwound
\* it: the panic is not caught, so the thread makes no further call
DispIdle == [pc |-> "idle", proxy |-> 0, ev |-> NoEvent, i |-> 0]
DispPanicked == [DispIdle EXCEPT !.pc = "panicked"]
ConsIdle == [pc |-> "idle", op |-> "none", h |-> 0, buffer |-> "none"]
ConsPanicked == [ConsIdle EXCEPT !.pc = "panicked"]

Init ==
    /\ inner = <<>>
    /\ mutex = <<>>
    /\ frames = <<>>
    /\ handles = <<>>
    /\ dropped = {}
    /\ disp = DispIdle
    /\ cons = [t \in Consumers |-> ConsIdle]
    /\ copies = <<>>
    /\ offered = <<>>
    /\ closed = <<>>
    /\ nevents = 0
    /\ aborted = FALSE

\* ------------------------------------------------- WlrScreencopyState
\* mutant: capture_output without self.frames.push(inner.clone())
capture_output_unregistered(output) ==
    /\ ~aborted
    /\ disp.pc = "idle"
    /\ Len(handles) < MaxFrames
    /\ LET c == Len(inner) + 1 IN
        /\ inner' = Append(inner, WlrScreencopyFrameInner(c))
        /\ mutex' = Append(mutex, NewMutex)
        /\ handles' = Append(handles, c)
        /\ offered' = Append(offered, <<>>)
        /\ closed' = Append(closed, FALSE)
    /\ UNCHANGED <<frames, dropped, disp, cons, copies, nevents, aborted>>

\* ZwlrScreencopyManagerV1::capture_output: a new protocol object, whose id
\* no live object has
NewProxy == Len(inner) + 1

\* WlrScreencopyState::capture_output(&mut self, output, qh); &mut self
\* excludes a running Dispatch::event, which borrows the same state
capture_output(output) ==
    /\ ~aborted
    /\ disp.pc = "idle"
    /\ Len(frames) < MaxFrames
    /\ LET c == Len(inner) + 1 IN
        /\ inner' = Append(inner, WlrScreencopyFrameInner(NewProxy))
        /\ mutex' = Append(mutex, NewMutex)
        /\ frames' = Append(frames, c)
        /\ handles' = Append(handles, c)
        /\ offered' = Append(offered, <<>>)
        /\ closed' = Append(closed, FALSE)
    /\ UNCHANGED <<dropped, disp, cons, copies, nevents, aborted>>

\* ------------------------------------- Dispatch<ZwlrScreencopyFrameV1>
\* the proxies the transport can deliver a frame event for
Proxies == ForeignProxies \cup {inner[c].frame : c \in DOMAIN inner}

\* registry positions whose frame is the proxy
Positions(proxy) == {i \in DOMAIN frames : inner[frames[i]].frame = proxy}

\* a panic either unwinds its thread or ends the process (panic = "abort")
PanicOutcome == aborted' \in BOOLEAN

\* mutant: the seconds of the timestamp in the other order
ReadyStatusSwapped(ev) == Ready(<<ev.tv_sec_lo, ev.tv_sec_hi, ev.tv_nsec>>)

\* FrameStatus::Ready((tv_sec_hi, tv_sec_lo, tv_nsec))
ReadyStatus(ev) == Ready(<<ev.tv_sec_hi, ev.tv_sec_lo, ev.tv_nsec>>)

\* mutant: the flags arm also closes the negotiation
MatchEventFlagsClose(f, ev) ==
    CASE ev.type = "Buffer" ->
            LET format == ShmFormatIntoResult(ev.format) IN
            IF IsOk(format)
            THEN Ok([f EXCEPT !.buffers =
                        Append(@, WlShm(Unwrap(format), ev.width, ev.height,
                                        ev.stride))])
            ELSE Err("unwrap")
      [] ev.type = "LinuxDmabuf" ->
            Ok([f EXCEPT !.buffers =
                    Append(@, LinuxDmabuf(ev.format, ev.width, ev.height))])
      [] ev.type = "BufferDone" -> Ok([f EXCEPT !.buffers_done = TRUE])
      [] ev.type = "Flags" ->
            LET flags == FlagsIntoResult(ev.flags) IN
            IF IsOk(flags)
            THEN Ok([f EXCEPT !.flags = Some(Unwrap(flags)),
                               !.buffers_done = TRUE])
            ELSE Err("unwrap")
      [] ev.type = "Damage" -> Err("todo")
      [] ev.type = "Ready" ->
            Ok([f EXCEPT !.status = Ready(<<ev.tv_sec_hi, ev.tv_sec_lo,
                                            ev.tv_nsec>>)])
      [] ev.type = "Failed" -> Ok([f EXCEPT !.status = Failed])
      [] OTHER -> Ok(f)

\* the body of `match event`: Ok(the frame after the arm) or Err when the arm
\* panics (unwrap of an Err, todo!())
MatchEvent(f, ev) ==
    CASE ev.type = "Buffer" ->
            LET format == ShmFormatIntoResult(ev.format) IN
            IF IsOk(format)
            THEN Ok([f EXCEPT !.buffers =
                        Append(@, WlShm(Unwrap(format), ev.width, ev.height,
                                        ev.stride))])
            ELSE Err("unwrap")
      [] ev.type = "LinuxDmabuf" ->
            Ok([f EXCEPT !.buffers =
                    Append(@, LinuxDmabuf(ev.format, ev.width, ev.height))])
      [] ev.type = "BufferDone" -> Ok([f EXCEPT !.buffers_done = TRUE])
      [] ev.type = "Flags" ->
            LET flags == FlagsIntoResult(ev.flags) IN
            IF IsOk(flags)
            THEN Ok([f EXCEPT !.flags = Some(Unwrap(flags))])
            ELSE Err("unwrap")
      [] ev.type = "Damage" -> Err("todo")
      [] ev.type = "Ready" ->
            Ok([f EXCEPT !.status = ReadyStatus(ev)])
      [] ev.type = "Failed" -> Ok([f EXCEPT !.status = Failed])
      [] OTHER -> Ok(f)

\* mutant: find with a closure that accepts the first entry it can lock
FindAny(proxy, i) ==
    IF i > Len(frames) THEN [at |-> "none", i |-> i]
    ELSE IF mutex[frames[i]].owner # Free THEN [at |-> "wait", i |-> i]
    ELSE IF mutex[frames[i]].poisoned THEN [at |-> "poisoned", i |-> i]
    ELSE [at |-> "found", i |-> i]

\* mutant: filter(...).last() in place of find: the closure runs on every
\* entry, also on those after the proxy's
RECURSIVE FindAll(_, _)
FindAll(proxy, i) ==
    IF i > Len(frames) THEN [at |-> "none", i |-> i]
    ELSE LET c == frames[i] IN
         IF mutex[c].owner # Free THEN [at |-> "wait", i |-> i]
         ELSE IF mutex[c].poisoned THEN [at |-> "poisoned", i |-> i]
         ELSE LET rest == FindAll(proxy, i + 1) IN
              IF rest.at # "none" THEN rest
              ELSE IF inner[c].frame = proxy THEN [at |-> "found", i |-> i]
              ELSE rest

\* frames.iter_mut().find(|f| { let f = f.lock().unwrap(); &f.frame == proxy })
\* from registry position i on. Each call of the closure locks one entry,
\* compares and drops the guard, so the iteration runs on until it meets a
\* lock another thread holds (it waits there), a poisoned lock (unwrap
\* panics), an entry that is the proxy, or the end of the registry.
RECURSIVE Find(_, _)
Find(proxy, i) ==
    IF i > Len(frames) THEN [at |-> "none", i |-> i]
    ELSE LET c == frames[i] IN
         IF mutex[c].owner # Free THEN [at |-> "wait", i |-> i]
         ELSE IF mutex[c].poisoned THEN [at |-> "poisoned", i |-> i]
         ELSE IF inner[c].frame = proxy THEN [at |-> "found", i |-> i]
         ELSE Find(proxy, i + 1)

\* the handler's panic: the thread unwinds (or the process ends); nothing is
\* locked at that point but the cells in `held`, whose guards poison them
HandlerPanics(held) ==
    /\ disp' = DispPanicked
    /\ mutex' = [c \in DOMAIN mutex |->
                    IF c \in held THEN Poisoned(mutex[c]) ELSE mutex[c]]
    /\ PanicOutcome

\* mutant: if let Some(..) in place of unwrap: no frame, nothing done
UnwrapNoneIgnored ==
    /\ disp' = DispIdle
    /\ UNCHANGED <<inner, mutex, offered, closed, aborted>>

\* find(...) returned None: .unwrap() panics
UnwrapNone ==
    /\ HandlerPanics({})
    /\ UNCHANGED <<inner, offered, closed>>

\* Dispatch::event from the find iteration at position i to its return, its
\* panic, or the lock it has to wait for
Handler(proxy, ev, i) ==
    LET r == Find(proxy, i) IN
    CASE r.at = "wait" ->
            /\ disp' = [pc |-> "find", proxy |-> proxy, ev |-> ev, i |-> r.i]
            /\ UNCHANGED <<inner, mutex, offered, closed, aborted>>
      [] r.at = "none" -> UnwrapNone
      [] r.at = "poisoned" ->
            \* lock().unwrap() of a poisoned lock in the closure
            /\ HandlerPanics({})
            /\ UNCHANGED <<inner, offered, closed>>
      [] r.at = "found" ->
            \* .unwrap().lock().unwrap(), the match, the guard dropped
            LET c == frames[r.i]
                m == MatchEvent(inner[c], ev)
            IN
            /\ offered' = IF IsOffer(ev)
                           THEN [offered EXCEPT ![c] = Append(@, ev)]
                           ELSE offered
            /\ closed' = IF ev.type = "BufferDone"
                          THEN [closed EXCEPT ![c] = TRUE]
                          ELSE closed
            /\ IF IsOk(m)
               THEN /\ inner' = [inner EXCEPT ![c] = Unwrap(m)]
                    /\ disp' = DispIdle
                    /\ UNCHANGED <<mutex, aborted>>
               ELSE /\ HandlerPanics({c})
                    /\ UNCHANGED inner

\* mutant: the handler of a terminal event takes the frame out of the
\* registry
event_pruning(proxy, ev) ==
    /\ ~aborted
    /\ disp.pc = "idle"
    /\ nevents < MaxEvents
    /\ IsOffer(ev) =>
            \A i \in Positions(proxy) : Len(inner[frames[i]].buffers) < MaxOffers
    /\ Handler(proxy, ev, 1)
    /\ nevents' = nevents + 1
    /\ frames' = IF ev.type \in {"Ready", "Failed"}
                 THEN SelectSeq(frames, LAMBDA c : inner[c].frame # proxy)
                 ELSE frames
    /\ UNCHANGED <<handles, dropped, cons, copies>>

\* the transport calls Dispatch::event(state, proxy, event, ...)
event(proxy, ev) ==
    /\ ~aborted
    /\ disp.pc = "idle"
    /\ nevents < MaxEvents
    /\ IsOffer(ev) =>
            \A i \in Positions(proxy) : Len(inner[frames[i]].buffers) < MaxOffers
    /\ Handler(proxy, ev, 1)
    /\ nevents' = nevents + 1
    /\ UNCHANGED <<frames, handles, dropped, cons, copies>>

\* the lock the handler waited for in find was released: it goes on
event_resume ==
    /\ ~aborted
    /\ disp.pc = "find"
    /\ mutex[frames[disp.i]].owner = Free
    /\ Handler(disp.proxy, disp.ev, disp.i)
    /\ UNCHANGED <<frames, handles, dropped, cons, copies, nevents>>

\* the caller of the event loop catches the unwind of the handler's panic
\* (catch_unwind around the dispatch) and goes on to the next event; the
\* locks the panic poisoned stay poisoned
catch_unwind ==
    /\ ~aborted
    /\ disp.pc = "panicked"
    /\ disp' = DispIdle
    /\ UNCHANGED <<inner, mutex, frames, handles, dropped, cons, copies, offered,
                   closed, nevents, aborted>>

\* ------------------------------------------------- WlrScreencopyFrame
Ops == {"copy", "buffer_types", "status"}

\* mutant: buffer_types() without the buffers_done test
buffer_types_unguarded(f) == f.buffers

\* what buffer_types() returns under the guard
buffer_types(f) == IF ~f.buffers_done THEN <<>> ELSE f.buffers

\* mutant: a frame whose negotiation closed is reported as failed until its
\* terminal event arrives
status_by_closure(f) ==
    IF f.buffers_done /\ f.status = NotReady THEN Failed ELSE f.status

\* what status() returns under the guard
status(f) == f.status

\* let inner = self.inner.lock().unwrap(); in copy, buffer_types and status
Lock(t, call) ==
    LET c == handles[call.h] IN
    IF mutex[c].owner # Free
    THEN /\ cons' = [cons EXCEPT ![t] = [call EXCEPT !.pc = "lock"]]
         /\ UNCHANGED <<mutex, aborted>>
    ELSE IF mutex[c].poisoned
    THEN /\ cons' = [cons EXCEPT ![t] = ConsPanicked]
         /\ PanicOutcome
         /\ UNCHANGED mutex
    ELSE /\ cons' = [cons EXCEPT ![t] = [call EXCEPT !.pc = "held"]]
         /\ mutex' = [mutex EXCEPT ![c].owner = ConsThread(t)]
         /\ UNCHANGED aborted

\* the buffers given to copy so far, in a request sent or a call under way
Copied == {copies[k].buffer : k \in DOMAIN copies}
            \cup {cons[t].buffer : t \in Consumers}

\* a consumer thread calls copy(buffer), buffer_types() or status() on a
\* handle, up to the guard it gets, waits for, or panics on
call(t, op, h, buffer) ==
    /\ ~aborted
    /\ cons[t].pc = "idle"
    /\ h \notin dropped
    /\ op = "copy" => buffer \notin Copied
    /\ Lock(t, [pc |-> "lock", op |-> op, h |-> h, buffer |-> buffer])
    /\ UNCHANGED <<inner, frames, handles, dropped, disp, copies, offered, closed,
                   nevents>>

\* the lock the consumer waited for was released
lock(t) ==
    /\ ~aborted
    /\ cons[t].pc = "lock"
    /\ mutex[handles[cons[t].h]].owner = Free
    /\ Lock(t, cons[t])
    /\ UNCHANGED <<inner, frames, handles, dropped, disp, copies, offered, closed,
                   nevents>>

\* mutant: the copy request sent on the first registered frame's proxy
SendCopyFirst(f, buffer) ==
    Append(copies, [frame |-> inner[frames[1]].frame, buffer |-> buffer])

\* inner.frame.copy(buffer): the request zwlr_screencopy_frame_v1.copy
SendCopy(f, buffer) == Append(copies, [frame |-> f.frame, buffer |-> buffer])

\* the rest of the method under the guard, and the guard dropped on return
return(t) ==
    /\ ~aborted
    /\ cons[t].pc = "held"
    /\ LET c == handles[cons[t].h] IN
        /\ copies' = IF cons[t].op = "copy"
                      THEN SendCopy(inner[c], cons[t].buffer)
                      ELSE copies
        /\ mutex' = [mutex EXCEPT ![c] = Unlocked(@)]
        /\ cons' = [cons EXCEPT ![t] = ConsIdle]
    /\ UNCHANGED <<inner, frames, handles, dropped, disp, offered, closed,
                   nevents, aborted>>

\* copy(buffer), buffer_types() or status() from call to return, while no
\* other thread is inside a call: lock().unwrap(), the body, the guard dropped
method(t, op, h, buffer) ==
    /\ ~aborted
    /\ cons[t].pc = "idle"
    /\ h \notin dropped
    /\ op = "copy" => buffer \notin Copied
    /\ LET c == handles[h] IN
        /\ mutex[c].owner = Free
        /\ IF mutex[c].poisoned
           THEN /\ cons' = [cons EXCEPT ![t] = ConsPanicked]
                /\ PanicOutcome
                /\ UNCHANGED copies
           ELSE /\ cons' = [cons EXCEPT ![t] = ConsIdle]
                /\ copies' = IF op = "copy"
                              THEN SendCopy(inner[c], buffer)
                              ELSE copies
                /\ UNCHANGED aborted
    /\ UNCHANGED <<inner, mutex, frames, handles, dropped, disp, offered, closed,
                   nevents>>

\* the consumer discards handle h (no call borrows it): WlrScreencopyFrame has
\* no Drop of its own, its Arc gives up one reference to the cell
drop(h) ==
    /\ ~aborted
    /\ h \notin dropped
    /\ \A t \in Consumers : cons[t].h # h
    /\ dropped' = dropped \cup {h}
    /\ UNCHANGED <<inner, mutex, frames, handles, disp, cons, copies, offered,
                   closed, nevents, aborted>>

\* Arc::strong_count of cell c: the registry's clone and the handle's
StrongCount(c) ==
    Cardinality({i \in DOMAIN frames : frames[i] = c})
        + Cardinality({h \in DOMAIN handles \ dropped : handles[h] = c})

\* ---------------------------------------------------------- specifications
\* Spec: every call runs from its start to its return or panic
Next ==
    \/ \E output \in Outputs : capture_output(output)
    \/ \E proxy \in Proxies, ev \in Events : event(proxy, ev)
    \/ \E t \in Consumers, op \in Ops, h \in DOMAIN handles, buffer \in WlBuffers :
            method(t, op, h, buffer)

Spec == Init /\ [][Next]_vars

\* ThreadSpec: the dispatching thread and the consumer threads interleave at
\* the locks
ThreadNext ==
    \/ \E output \in Outputs : capture_output(output)
    \/ /\ nevents < MaxThreadEvents
       /\ \E proxy \in Proxies, ev \in Events : event(proxy, ev)
    \/ event_resume
    \/ \E t \in Consumers, op \in Ops, h \in DOMAIN handles, buffer \in WlBuffers :
            call(t, op, h, buffer)
    \/ \E t \in Consumers : lock(t)
    \/ \E t \in Consumers : return(t)

ThreadSpec == Init /\ [][ThreadNext]_vars

\* the events of the fair specification: for the locks an event counts by its
\* proxy and by whether its arm returns (BufferDone) or panics under the
\* guard (Damage)
LockEvents == {[type |-> "BufferDone"], [type |-> "Damage"]}

FairThreadNext ==
    \/ \E output \in Outputs : capture_output(output)
    \/ /\ nevents < MaxThreadEvents
       /\ \E proxy \in Proxies, ev \in LockEvents : event(proxy, ev)
    \/ event_resume
    \/ \E t \in Consumers, op \in Ops, h \in DOMAIN handles, buffer \in WlBuffers :
            call(t, op, h, buffer)
    \/ \E t \in Consumers : lock(t)
    \/ \E t \in Consumers : return(t)

\* FairThreadSpec: the threads of ThreadSpec under fair scheduling: a thread
\* inside a method goes on to its return, and a thread waiting for a lock that
\* is released again and again gets it at some time
FairThreadSpec ==
    /\ Init /\ [][FairThreadNext]_vars
    /\ \A t \in Consumers : WF_vars(return(t)) /\ SF_vars(lock(t))
    /\ SF_vars(event_resume)

\* CatchSpec: as Spec, and the dispatching thread outlives a panic of the
\* handler
CatchNext ==
    \/ \E output \in Outputs : capture_output(output)
    \/ \E proxy \in Proxies, ev \in Events : event(proxy, ev)
    \/ catch_unwind
    \/ \E t \in Consumers, op \in Ops, h \in DOMAIN handles, buffer \in WlBuffers :
            method(t, op, h, buffer)

CatchSpec == Init /\ [][CatchNext]_vars

\* DropSpec: as Spec, and the consumer discards handles
DropNext ==
    \/ \E output \in Outputs : capture_output(output)
    \/ \E proxy \in Proxies, ev \in Events : event(proxy, ev)
    \/ \E t \in Consumers, op \in Ops, h \in DOMAIN handles, buffer \in WlBuffers :
            method(t, op, h, buffer)
    \/ \E h \in DOMAIN handles : drop(h)

DropSpec == Init /\ [][DropNext]_vars

\* ------------------------------------------------------------ properties
\* what a consumer gets from buffer_types() and status() on handle h: both
\* panic in lock().unwrap() when the frame's lock is poisoned
Returns(h) ==
    LET c == handles[h] IN
    IF mutex[c].poisoned THEN <<"panic">>
    ELSE <<"ok", buffer_types(inner[c]), status(inner[c])>>

\* the proxy behind handle h
FrameOf(h) == inner[handles[h]].frame

\* the wire code of a wl_shm::Format value
ShmFormatCode(format) ==
    CASE format = "Argb8888" -> 0
      [] format = "Xrgb8888" -> 1

\* layout b carries the fields of offer event ev, each unchanged
SameLayout(b, ev) ==
    IF ev.type = "Buffer"
    THEN /\ b.kind = "WlShm"
         /\ ShmFormatCode(b.format) = ev.format
         /\ b.width = ev.width /\ b.height = ev.height
         /\ b.stride = ev.stride
    ELSE /\ b.kind = "LinuxDmabuf"
         /\ b.format = ev.format
         /\ b.width = ev.width /\ b.height = ev.height

C1_WitnessOpen ==
    \E h \in DOMAIN handles :
        /\ ~closed[handles[h]]
        /\ Len(offered[handles[h]]) = 2
        /\ Returns(h) = <<"ok", <<>>, NotReady>>

\* C2: status() is monotonic: once it is Ready or Failed, no step changes
\* the value it returns.
C2_StatusMonotonic ==
    [][\A h \in DOMAIN handles :
          status(inner[handles[h]]) # NotReady =>
              status(inner'[handles[h]]) = status(inner[handles[h]])]_vars

\* C3: an event delivered for one frame's proxy leaves what every other
\* frame's handle returns from buffer_types() and status() as it was: when
\* an event changes what a handle returns, it is an event for that handle's
\* proxy.
C3_NoCrossTalk ==
    [][\A h \in DOMAIN handles :
          Returns(h)' # Returns(h) =>
              \A proxy \in Proxies, ev \in Events :
                  event(proxy, ev) => FrameOf(h) = proxy]_vars

\* two frames, each changed by its own events only: the first closed and
\* not terminal, the second failed and not closed
C3_Witness ==
    /\ Len(handles) = 2
    /\ Returns(1) = <<"ok", <<>>, NotReady>>
    /\ inner[handles[1]].buffers_done
    /\ Returns(2) = <<"ok", <<>>, Failed>>
    /\ ~inner[handles[2]].buffers_done

\* C4: an event for a proxy no registered frame has makes the handler panic
\* and changes no frame and no lock.
C4_UnknownProxyPanics ==
    [][\A proxy \in {p \in Proxies : Positions(p) = {}}, ev \in Events :
          event(proxy, ev) =>
              /\ disp'.pc = "panicked"
              /\ inner' = inner
              /\ mutex' = mutex]_vars

\* the handler panicked with frames registered and none of their locks
\* poisoned: it was find that returned None
C4_Witness ==
    /\ disp.pc = "panicked"
    /\ frames # <<>>
    /\ \A c \in DOMAIN mutex : ~mutex[c].poisoned

\* C5: once the negotiation-closed event has been applied to a frame, the
\* frame stays closed and its offered-buffer sequence no longer changes.
C5_FrozenAfterClosure ==
    [][\A c \in DOMAIN inner :
          closed[c] =>
              /\ closed'[c]
              /\ inner'[c].buffers_done
              /\ inner'[c].buffers = inner[c].buffers]_vars

\* the event is out of the per-frame order offers, closed, flags, terminal
OutOfOrder(f, ev) ==
    \/ f.status # NotReady
    \/ f.buffers_done /\ (IsOffer(ev) \/ ev.type = "BufferDone")
    \/ ~f.buffers_done /\ ev.type \in {"Flags", "Ready", "Failed"}

\* C6: an event that arrives out of the per-frame order makes the handler
\* panic and is not absorbed into the frame's state.
C6_OutOfOrderPanics ==
    [][\A proxy \in Proxies, ev \in Events :
          event(proxy, ev) =>
              \A i \in Positions(proxy) :
                  OutOfOrder(inner[frames[i]], ev) =>
                      /\ disp'.pc = "panicked"
                      /\ inner' = inner]_vars

\* C7: capture_output returns a handle to a new frame in NotReady with no
\* offers, not closed and without flags, adds one registry entry, which is
\* that frame, and leaves every other frame as it was; and the registry entry
\* an event for a handle's proxy is routed to is the handle's own frame.
C7_CaptureOutput ==
    /\ [][\A output \in Outputs :
            capture_output(output) =>
                /\ Len(handles') = Len(handles) + 1
                /\ SubSeq(handles', 1, Len(handles)) = handles
                /\ \A h \in DOMAIN handles' \ DOMAIN handles :
                       /\ Returns(h)' = <<"ok", <<>>, NotReady>>
                       /\ inner'[handles'[h]].buffers = <<>>
                       /\ ~inner'[handles'[h]].buffers_done
                       /\ inner'[handles'[h]].flags = None
                       /\ frames' = Append(frames, handles'[h])
                /\ \A c \in DOMAIN inner :
                       inner'[c] = inner[c] /\ mutex'[c] = mutex[c]]_vars
    /\ [](\A h \in DOMAIN handles :
            /\ Positions(FrameOf(h)) # {}
            /\ \A i \in Positions(FrameOf(h)) : frames[i] = handles[h])

\* a second frame captured beside a frame that has offers and has failed
C7_Witness ==
    /\ Len(handles) = 2
    /\ Len(frames) = 2
    /\ inner[handles[1]].buffers # <<>>
    /\ ~mutex[handles[1]].poisoned
    /\ status(inner[handles[1]]) = Failed
    /\ Returns(2) = <<"ok", <<>>, NotReady>>
    /\ inner[handles[2]].flags = None

\* C8: copy(buffer), in any state of the frame, changes no frame and no
\* lock; it sends one copy request for the frame of its handle, or panics on
\* a poisoned lock and sends none.
C8_CopyEffect ==
    [][\A t \in Consumers, h \in DOMAIN handles, buffer \in WlBuffers :
          method(t, "copy", h, buffer) =>
              /\ inner' = inner
              /\ mutex' = mutex
              /\ closed' = closed
              /\ copies' = IF mutex[handles[h]].poisoned THEN copies
                           ELSE Append(copies, [frame |-> FrameOf(h),
                                                buffer |-> buffer])]_vars

\* a copy request was sent for the second frame before its negotiation closed
C8_Witness ==
    /\ Len(handles) = 2
    /\ Len(copies) = 1
    /\ copies[1].frame = FrameOf(2)
    /\ ~inner[handles[2]].buffers_done
    /\ inner[handles[2]].buffers # <<>>

\* C9: for a frame in NotReady, a Ready event makes status() return
\* Ready((tv_sec_hi, tv_sec_lo, tv_nsec)) and a Failed event makes it return
\* Failed; buffer_types() returns what it returned before.
C9_TerminalOutcome ==
    [][\A proxy \in Proxies, ev \in {e \in Events : e.type \in {"Ready", "Failed"}} :
          event(proxy, ev) =>
              \A h \in DOMAIN handles :
                  (FrameOf(h) = proxy /\ Returns(h)[1] = "ok"
                   /\ Returns(h)[3] = NotReady) =>
                      Returns(h)' =
                          <<"ok", Returns(h)[2],
                            IF ev.type = "Ready"
                            THEN <<"Ready", <<ev.tv_sec_hi, ev.tv_sec_lo,
                                              ev.tv_nsec>>>>
                            ELSE <<"Failed">> >>]_vars

\* Scenario A: offer(Argb8888, 1920, 1080, 7680), negotiation closed,
\* succeeded(0, 1, 0)
C9_Witness ==
    \E h \in DOMAIN handles :
        Returns(h) = <<"ok", <<WlShm("Argb8888", 1920, 1080, 7680)>>,
                       Ready(<<0, 1, 0>>)>>

\* Scenario B: negotiation closed with no offers, failed
C9_WitnessB ==
    \E h \in DOMAIN handles :
        /\ closed[handles[h]]
        /\ Returns(h) = <<"ok", <<>>, Failed>>

\* the handler waits in find for a lock that consumer t holds
WaitsFor(t) ==
    /\ cons[t].pc = "held"
    /\ disp.pc = "find"
    /\ frames[disp.i] = handles[cons[t].h]

\* C10 as claimed: while a consumer holds the lock of frame A, the handler of
\* an event for another registered frame B never waits for A's lock.
C10_NeverWaitsForOtherFrame ==
    \A t \in Consumers :
        WaitsFor(t) =>
            \/ Positions(disp.proxy) = {}
            \/ inner[frames[disp.i]].frame = disp.proxy

\* C10 amended: the handler of an event for frame B waits only for B's lock
\* and for the locks of the entries before B in the registry; a lock a
\* consumer holds on a frame after B never delays it.
C10_WaitsOnlyUpToTarget ==
    disp.pc = "find" =>
        /\ disp.i \in DOMAIN frames
        /\ \A j \in Positions(disp.proxy) : disp.i <= j

\* a consumer holds the lock of the first entry and the handler of an event
\* for the second entry waits for it
C10_Witness ==
    \E t \in Consumers :
        /\ WaitsFor(t)
        /\ disp.i = 1
        /\ Positions(disp.proxy) = {2}

\* the succeeded and failed events
TerminalEvents == {ev \in Events : ev.type \in {"Ready", "Failed"}}

FirstPosition(proxy) ==
    CHOOSE i \in Positions(proxy) : \A j \in Positions(proxy) : i <= j

\* C12: an event changes at most one field of one frame, the first registry
\* entry whose frame is the event's proxy: an offer appends one layout to
\* buffers, BufferDone sets buffers_done, a flags event sets flags, Ready and
\* Failed set status. When the handler returns the field is set; when it
\* panics no field changes. Every other field of that frame, every other
\* frame and the registry are unchanged.
C12_OneFieldOfOneFrame ==
    [][\A proxy \in Proxies, ev \in Events :
          event(proxy, ev) =>
              /\ frames' = frames
              /\ DOMAIN inner' = DOMAIN inner
              /\ IF Positions(proxy) = {} \/ disp'.pc # "idle"
                 THEN inner' = inner
                 ELSE LET c == frames[FirstPosition(proxy)]
                          f == inner[c]
                          g == inner'[c]
                      IN
                      /\ \A d \in DOMAIN inner \ {c} : inner'[d] = inner[d]
                      /\ CASE IsOffer(ev) ->
                                /\ g = [f EXCEPT !.buffers = g.buffers]
                                /\ Len(g.buffers) = Len(f.buffers) + 1
                                /\ SubSeq(g.buffers, 1, Len(f.buffers)) = f.buffers
                                /\ SameLayout(g.buffers[Len(g.buffers)], ev)
                           [] ev.type = "BufferDone" ->
                                g = [f EXCEPT !.buffers_done = TRUE]
                           [] ev.type = "Flags" ->
                                /\ g = [f EXCEPT !.flags = g.flags]
                                /\ g.flags \in {<<"Some", {}>>,
                                                <<"Some", {"YInvert"}>>}
                           [] ev.type \in {"Ready", "Failed"} ->
                                /\ g = [f EXCEPT !.status = g.status]
                                /\ g.status # NotReady
                           [] OTHER -> g = f]_vars

\* the second of two frames took an offer, BufferDone and flags, each in its
\* own field, and the first frame is as capture_output made it
C12_Witness ==
    /\ Len(frames) = 2
    /\ inner[frames[1]] = WlrScreencopyFrameInner(inner[frames[1]].frame)
    /\ Len(inner[frames[2]].buffers) = 1
    /\ inner[frames[2]].buffers_done
    /\ inner[frames[2]].flags = Some({"YInvert"})
    /\ inner[frames[2]].status = NotReady

\* C13: a Damage event for a registered frame in NotReady is passed over:
\* the frame's fields are unchanged, the handler returns, so that the events
\* after it are dispatched, and buffer_types() and status() return what they
\* returned before.
C13_DamagePassedOver ==
    [][\A proxy \in Proxies :
          event(proxy, [type |-> "Damage"]) =>
              \A h \in DOMAIN handles :
                  (FrameOf(h) = proxy /\ Returns(h)[1] = "ok"
                   /\ Returns(h)[3] = NotReady) =>
                      /\ inner'[handles[h]] = inner[handles[h]]
                      /\ disp'.pc = "idle"
                      /\ Returns(h)' = Returns(h)]_vars

\* C14: the registry holds one entry per capture_output call made so far, in
\* call order (the cell of the k-th handle returned is the k-th entry, also
\* when the handle was discarded since, and the cell is still referenced);
\* every step leaves the entries there are in place and appends at most one,
\* and the proxy stored in a frame never changes.
C14_RegistryNeverPruned ==
    /\ [](/\ frames = handles
          /\ \A h \in dropped : StrongCount(handles[h]) = 1)
    /\ [][/\ Len(frames') \in {Len(frames), Len(frames) + 1}
          /\ SubSeq(frames', 1, Len(frames)) = frames
          /\ \A c \in DOMAIN inner : inner'[c].frame = inner[c].frame]_vars

\* two frames, the first failed and its handle discarded, the second with a
\* copy requested: both are in the registry, in the order of their calls
C14_Witness ==
    /\ Len(frames) = 2
    /\ 1 \in dropped
    /\ inner[frames[1]].status = Failed
    /\ inner[frames[1]].frame = FrameOf(1)
    /\ \E k \in DOMAIN copies : copies[k].frame = inner[frames[2]].frame

\* the locks consumer thread t holds
LocksHeld(t) == {c \in DOMAIN mutex : mutex[c].owner = ConsThread(t)}

C16_FailureStaysLocal ==
    [][\A proxy \in {p \in Proxies : Positions(p) # {}}, ev \in Events :
          event(proxy, ev) =>
              LET c == frames[FirstPosition(proxy)]
                  m == MatchEvent(inner[c], ev)
              IN
              /\ ~IsOk(m) =>
                    /\ inner' = inner
                    /\ \A h \in DOMAIN handles :
                          FrameOf(h) # proxy => Returns(h)' = Returns(h)
              /\ (IsOk(m) /\ ~mutex[c].poisoned) =>
                    /\ disp'.pc = "idle"
                    /\ inner'[c] = Unwrap(m)]_vars

====
